---- MODULE Spec2Model ----
(***************************************************************************)
(* A model of info.go: the FLAC metadata decoders                          *)
(* (FLACParseMetadataBlockHeader, FLACParseStreaminfoBlock,                *)
(* FLACParseVorbisCommentBlock) and the block loop of main.                *)
(*                                                                         *)
(* Fixed-width unsigned integers (uint8, uint16, uint32, uint64) are bit   *)
(* sequences, most significant bit first, so that masks, shifts and        *)
(* truncating conversions are computed bit by bit at their Go width.  A    *)
(* byte slice is a sequence of numbers 0..255.  Go's int is taken to be    *)
(* 64 bits wide (int(x) of a uint32 x is never negative).  A Go run-time   *)
(* panic is the result [fault |-> TRUE] of a decoder and pc = "fault" of   *)
(* main.                                                                   *)
(***************************************************************************)
EXTENDS Integers, Sequences, FiniteSets, TLC

VARIABLES
    fn,         \* the decoder called (in main: by the last dispatch, else "none")
    block,      \* that decoder's argument
    ret,        \* [called |-> FALSE] before the call, the decoder's result after
    decl,       \* single calls: the fields the argument was built from
    pc,         \* main: "marker", "header", "body", "done", "fault", "exit"
    off,        \* main: read offset of buf (bytes.Buffer) in the buffer b
    lastBlock,  \* main: lastBlock
    totalMBH,   \* main: totalMBH
    mbh,        \* main: the header decoded by the current iteration
    sum         \* main: 4 + the sum of (4 + Length) over the headers decoded

vars == <<fn, block, ret, decl, pc, off, lastBlock, totalMBH, mbh, sum>>

callVars == <<fn, block, ret, decl>>
mainVars == <<pc, off, lastBlock, totalMBH, mbh, sum>>

(***************************************************************************)
(* Bit sequences                                                           *)
(***************************************************************************)
Min(a, b) == IF a < b THEN a ELSE b

Zeros(n) == [i \in 1..n |-> 0]

\* 2^n for the bit positions a number of the model can have
Pow2(n) == 2 ^ n

\* the w-bit representation of the number v, v < 2^31
NatToBits(v, w) ==
    [i \in 1..w |-> IF w - i > 30 THEN 0 ELSE (v \div Pow2(w - i)) % 2]

\* the number a bit sequence stands for (used only below 2^31)
ToNat(a) ==
    LET val[k \in 0..Len(a)] == IF k = 0 THEN 0 ELSE 2 * val[k - 1] + a[k]
    IN  val[Len(a)]

\* a hexadecimal literal, one number 0..15 per digit
Hex(digits) ==
    [i \in 1..(4 * Len(digits)) |->
        (digits[((i - 1) \div 4) + 1] \div Pow2(3 - ((i - 1) % 4))) % 2]

\* x & y at the operands' width
And(x, y) == [i \in 1..Len(x) |-> x[i] * y[i]]

\* x >> n at the operand's width (unsigned: zeros come in at the top)
Shr(x, n) == [i \in 1..Len(x) |-> IF i <= n THEN 0 ELSE x[i - n]]

\* the conversion uintW(x) of a wider x: the low w bits
Low(x, w) == SubSeq(x, Len(x) - w + 1, Len(x))

\* the bits of a byte slice, in order
BytesToBits(bs) ==
    [i \in 1..(8 * Len(bs)) |->
        (bs[((i - 1) \div 8) + 1] \div Pow2(7 - ((i - 1) % 8))) % 2]

(***************************************************************************)
(* bytes.Buffer.Next and encoding/binary, as info.go uses them             *)
(***************************************************************************)
\* b.Next(n) on the unread bytes bs: the next n bytes, or all of them when
\* fewer than n are left; never a fault
NextData(bs, n) == SubSeq(bs, 1, Min(n, Len(bs)))
NextRest(bs, n) == SubSeq(bs, Min(n, Len(bs)) + 1, Len(bs))

\* binary.BigEndian.Uint16/Uint32/Uint64 and binary.LittleEndian.Uint32 index
\* the last byte they need first, so a slice that is too short panics; a
\* caller tests Short before it reads the value
Short(bs, n) == Len(bs) < n
BigEndianUint(bs, n) == BytesToBits(SubSeq(bs, 1, n))

(***************************************************************************)
(* FLACParseMetadataBlockHeader                                            *)
(***************************************************************************)
LASTBLOCK == Hex(<<8, 0, 0, 0, 0, 0, 0, 0>>)
BLOCKTYPE == Hex(<<7, 15, 0, 0, 0, 0, 0, 0>>)
BLOCKLEN  == Hex(<<0, 0, 15, 15, 15, 15, 15, 15>>)

\* a shift that is one bit short
HeaderTypeField_Shift23(w) == ToNat(Shr(And(BLOCKTYPE, w), 23))
HeaderTypeField(w) == ToNat(Shr(And(BLOCKTYPE, w), 24))
HeaderLengthField(w) == ToNat(And(BLOCKLEN, w))
HeaderLastField(w) == ToNat(Shr(And(LASTBLOCK, w), 31)) = 1

FLACParseMetadataBlockHeader(w) ==
    [Type   |-> HeaderTypeField(w),
     Length |-> HeaderLengthField(w),
     Last   |-> HeaderLastField(w)]

(***************************************************************************)
(* FLACParseStreaminfoBlock                                                *)
(***************************************************************************)
minFSMask       == Hex(<<15, 15, 15, 15, 15, 15, 15, 15, 15, 15, 15, 15, 15, 15, 15, 15>>)
maxFSMask       == Hex(<<0, 0, 0, 0, 0, 0, 0, 0, 0, 0, 15, 15, 15, 15, 15, 15>>)
sampRateMask    == Hex(<<15, 15, 15, 15, 15, 0, 0, 0, 0, 0, 0, 0, 0, 0, 0, 0>>)
bitsPerSampMask == Hex(<<0, 0, 0, 0, 0, 1, 15, 0, 0, 0, 0, 0, 0, 0, 0, 0>>)
chMask          == Hex(<<0, 0, 0, 0, 0, 14, 0, 0, 0, 0, 0, 0, 0, 0, 0, 0>>)
totSampMask     == Hex(<<0, 0, 0, 0, 0, 0, 0, 15, 15, 15, 15, 15, 15, 15, 15, 15>>)

\* the fields of the first 64-bit read
MaxBlockSizeOf(bigint) == Low(Shr(And(minFSMask, bigint), 48), 16)
MinFrameSizeOf(bigint) == Low(Shr(And(minFSMask, bigint), 24), 32)
MaxFrameSizeOf(bigint) == Low(And(maxFSMask, bigint), 32)

\* the fields of the second 64-bit read; uint8(x) + 1 wraps at 256
SampleRateOf(bigint) == Low(Shr(And(sampRateMask, bigint), 44), 32)
\* the channel mask one bit too low
ChannelsOf_Mask40(bigint) ==
    (ToNat(Low(Shr(And(Hex(<<0, 0, 0, 0, 0, 7, 0, 0, 0, 0, 0, 0, 0, 0, 0, 0>>), bigint), 41), 8)) + 1) % 256
ChannelsOf(bigint) == (ToNat(Low(Shr(And(chMask, bigint), 41), 8)) + 1) % 256
BitsPerSampleOf(bigint) == (ToNat(Low(Shr(And(bitsPerSampMask, bigint), 36), 8)) + 1) % 256
TotalSamplesOf(bigint) == And(bigint, totSampMask)

\* fmt.Sprintf("%x", bytes): two lowercase hexadecimal digits per byte
HexDigits == <<"0", "1", "2", "3", "4", "5", "6", "7",
               "8", "9", "a", "b", "c", "d", "e", "f">>
SprintfHex(bs) ==
    [i \in 1..(2 * Len(bs)) |->
        HexDigits[(IF i % 2 = 1 THEN bs[(i + 1) \div 2] \div 16
                                ELSE bs[i \div 2] % 16) + 1]]

FLACParseStreaminfoBlock(bs) ==
    LET d1 == NextData(bs, 2)
        r1 == NextRest(bs, 2)
        d2 == NextData(r1, 8)
        r2 == NextRest(r1, 8)
        d3 == NextData(r2, 8)
        r3 == NextRest(r2, 8)
        d4 == NextData(r3, 16)
        w1 == BigEndianUint(d2, 8)
        w2 == BigEndianUint(d3, 8)
    IN  IF Short(d1, 2) \/ Short(d2, 8) \/ Short(d3, 8)
        THEN [fault |-> TRUE]
        ELSE [fault |-> FALSE,
              sib |-> [MinBlockSize  |-> BigEndianUint(d1, 2),
                       MaxBlockSize  |-> MaxBlockSizeOf(w1),
                       MinFrameSize  |-> MinFrameSizeOf(w1),
                       MaxFrameSize  |-> MaxFrameSizeOf(w1),
                       SampleRate    |-> SampleRateOf(w2),
                       Channels      |-> ChannelsOf(w2),
                       BitsPerSample |-> BitsPerSampleOf(w2),
                       TotalSamples  |-> TotalSamplesOf(w2),
                       MD5Signature  |-> SprintfHex(d4)]]

(***************************************************************************)
(* FLACParseVorbisCommentBlock                                             *)
(***************************************************************************)
IsZero(u) == \A i \in 1..Len(u) : u[i] = 0

\* u - 1 for a u that is not zero: the lowest 1 becomes 0, the 0s below it 1
Dec(u) ==
    LET k == CHOOSE i \in 1..Len(u) : u[i] = 1 /\ \A j \in (i + 1)..Len(u) : u[j] = 0
    IN  [i \in 1..Len(u) |-> IF i < k THEN u[i] ELSE IF i = k THEN 0 ELSE 1]

\* the n of b.Next(int(u)) after Next's own "if n > m { n = m }", for a
\* uint32 u and m unread bytes; a u of 2^31 or more is above every m
NextCount(u, m) == IF u[1] = 1 THEN m ELSE Min(ToNat(u), m)

\* the big-endian reading of the same four bytes
LittleEndianUint32_Big(bs) == BytesToBits(<<bs[1], bs[2], bs[3], bs[4]>>)
LittleEndianUint32(bs) == BytesToBits(<<bs[4], bs[3], bs[2], bs[1]>>)

\* the loop "for tc := vcb.TotalComments; tc > 0; tc--" on the unread bytes
RECURSIVE ReadComments(_, _, _)
ReadComments(bs, tc, acc) ==
    IF IsZero(tc) THEN [fault |-> FALSE, Comments |-> acc]
    ELSE LET d == NextData(bs, 4)
             r == NextRest(bs, 4)
         IN  IF Short(d, 4) THEN [fault |-> TRUE]
             ELSE LET n == NextCount(LittleEndianUint32(d), Len(r))
                  IN  ReadComments(NextRest(r, n), Dec(tc), Append(acc, NextData(r, n)))

FLACParseVorbisCommentBlock(bs) ==
    LET d1 == NextData(bs, 4)
        r1 == NextRest(bs, 4)
    IN  IF Short(d1, 4) THEN [fault |-> TRUE]
        ELSE LET n  == NextCount(LittleEndianUint32(d1), Len(r1))
                 r2 == NextRest(r1, n)
                 d3 == NextData(r2, 4)
             IN  IF Short(d3, 4) THEN [fault |-> TRUE]
                 ELSE LET loop == ReadComments(NextRest(r2, 4), LittleEndianUint32(d3), <<>>)
                      IN  IF loop.fault THEN [fault |-> TRUE]
                          ELSE [fault |-> FALSE,
                                vcb |-> [Vendor        |-> NextData(r1, n),
                                         TotalComments |-> LittleEndianUint32(d3),
                                         Comments      |-> loop.Comments]]

(***************************************************************************)
(* Inputs of the single-call specifications                                *)
(***************************************************************************)
\* byte values the header words are built from
HdrBytes == {0, 1, 4, 127, 128, 132, 255}

\* main is not running
idleMain ==
    /\ pc = "idle"
    /\ off = 0
    /\ lastBlock = FALSE
    /\ totalMBH = 0
    /\ mbh = [Type |-> 0, Length |-> 0, Last |-> FALSE]
    /\ sum = 0

(***************************************************************************)
(* SpecHdr: one call of FLACParseMetadataBlockHeader on a 32-bit word      *)
(***************************************************************************)
InitHdr ==
    /\ fn = "FLACParseMetadataBlockHeader"
    /\ \E b1 \in HdrBytes, b2 \in HdrBytes, b3 \in HdrBytes, b4 \in HdrBytes :
          /\ decl = <<b1, b2, b3, b4>>
          /\ block = BigEndianUint(<<b1, b2, b3, b4>>, 4)
    /\ ret = [called |-> FALSE]
    /\ idleMain

CallHdr ==
    /\ fn = "FLACParseMetadataBlockHeader"
    /\ ~ret.called
    /\ ret' = [called |-> TRUE, val |-> FLACParseMetadataBlockHeader(block)]
    /\ UNCHANGED <<fn, block, decl, mainVars>>

NextHdr == CallHdr

SpecHdr == InitHdr /\ [][NextHdr]_vars

(***************************************************************************)
(* C1                                                                      *)
(***************************************************************************)
\* the word with the header's fields packed back in the same layout
PackHeader(h) ==
    <<IF h.Last THEN 1 ELSE 0>> \o NatToBits(h.Type, 7) \o NatToBits(h.Length, 24)

\* C1: for every 32-bit word, packing the decoded (Last, Type, Length) back
\* as Last at bit 31, Type at bits 30..24 and Length at bits 23..0 gives the
\* word again, with Type in 0..127 and Length in 0..2^24-1.
C1_HeaderRoundTrip ==
    ret.called =>
        /\ ret.val.Type \in 0..127
        /\ ret.val.Length \in 0..16777215
        /\ ret.val.Last = (block[1] = 1)
        /\ ret.val.Type = ToNat(SubSeq(block, 2, 8))
        /\ ret.val.Length = ToNat(SubSeq(block, 9, 32))
        /\ PackHeader(ret.val) = block

\* a last-flagged word with a non-zero type and a non-zero length was decoded
C1_Witness ==
    /\ ret.called
    /\ fn = "FLACParseMetadataBlockHeader"
    /\ ret.val.Last
    /\ ret.val.Type = 4
    /\ ret.val.Length = 8356095

(***************************************************************************)
(* SpecSI: one call of FLACParseStreaminfoBlock on a body of decl.n bytes: *)
(* the 34 bytes of the layout (and filler after them), cut to n            *)
(***************************************************************************)
\* the bytes the decoder asks for: b.Next(2), b.Next(8), b.Next(8), b.Next(16)
STREAMINFO_LEN == 2 + 8 + 8 + 16

\* the longest body tried
MaxBody == 36

\* byte values the 64-bit windows are built from
WinBytes == {0, 165, 255}
Windows == [1..8 -> WinBytes]
ZeroWindow == [i \in 1..8 |-> 0]
FullWindow == [i \in 1..8 |-> 255]
SampleMD5 == [i \in 1..16 |-> i]

StreaminfoBody(d) ==
    SubSeq(d.minBS \o d.w1 \o d.w2 \o d.md5 \o [i \in 1..(MaxBody + 1) |-> 0], 1, d.n)

StreaminfoInputs ==
    {[minBS |-> <<16, 0>>, w1 |-> w, w2 |-> ZeroWindow, md5 |-> SampleMD5,
      n |-> STREAMINFO_LEN] : w \in Windows}
    \cup
    {[minBS |-> <<16, 0>>, w1 |-> ZeroWindow, w2 |-> w, md5 |-> SampleMD5,
      n |-> STREAMINFO_LEN] : w \in Windows}
    \cup
    {[minBS |-> <<16, 0>>, w1 |-> w, w2 |-> w, md5 |-> SampleMD5, n |-> n] :
        w \in {ZeroWindow, FullWindow}, n \in 0..MaxBody}

InitSI ==
    /\ fn = "FLACParseStreaminfoBlock"
    /\ decl \in StreaminfoInputs
    /\ block = StreaminfoBody(decl)
    /\ ret = [called |-> FALSE]
    /\ idleMain

CallSI ==
    /\ fn = "FLACParseStreaminfoBlock"
    /\ ~ret.called
    /\ ret' = [called |-> TRUE, val |-> FLACParseStreaminfoBlock(block)]
    /\ UNCHANGED <<fn, block, decl, mainVars>>

NextSI == CallSI

SpecSI == InitSI /\ [][NextSI]_vars

Returned == ret.called /\ ~ret.val.fault

(***************************************************************************)
(* C2                                                                      *)
(***************************************************************************)
\* C2: for every value of the first 64-bit window (body bytes 2..9),
\* MaxBlockSize is its top 16 bits, MinFrameSize is its next 24 bits
\* (bits 47..24, so below 2^24) and MaxFrameSize is its bottom 24 bits.
C2_FirstWindowFields ==
    (fn = "FLACParseStreaminfoBlock" /\ Returned) =>
        LET w == BytesToBits(SubSeq(block, 3, 10))
        IN  /\ ret.val.sib.MaxBlockSize = SubSeq(w, 1, 16)
            /\ ret.val.sib.MinFrameSize = Zeros(8) \o SubSeq(w, 17, 40)
            /\ ret.val.sib.MaxFrameSize = Zeros(8) \o SubSeq(w, 41, 64)

(***************************************************************************)
(* C3                                                                      *)
(***************************************************************************)
\* C3: for every value of the second 64-bit window (body bytes 10..17),
\* SampleRate is its top 20 bits, Channels its next 3 bits plus 1 (1..8),
\* BitsPerSample its next 5 bits plus 1 (1..32) and TotalSamples its bottom
\* 36 bits: each field reads its own bits of the window and no others.
C3_SecondWindowFields ==
    (fn = "FLACParseStreaminfoBlock" /\ Returned) =>
        LET w == BytesToBits(SubSeq(block, 11, 18))
        IN  /\ ret.val.sib.SampleRate = Zeros(12) \o SubSeq(w, 1, 20)
            /\ ret.val.sib.Channels = ToNat(SubSeq(w, 21, 23)) + 1
            /\ ret.val.sib.Channels \in 1..8
            /\ ret.val.sib.BitsPerSample = ToNat(SubSeq(w, 24, 28)) + 1
            /\ ret.val.sib.BitsPerSample \in 1..32
            /\ ret.val.sib.TotalSamples = Zeros(28) \o SubSeq(w, 29, 64)

\* a window whose channel bits are 010 and whose neighbours on both sides
\* carry other fields' bits was decoded: bytes 0xA5 0xA5 at bits 47..32 are
\* 1010 | 010 | 1 1010 | 0101 (sample rate, channels, bits per sample, total)
C3_Witness ==
    /\ fn = "FLACParseStreaminfoBlock"
    /\ Returned
    /\ SubSeq(block, 11, 18) = <<255, 255, 165, 165, 255, 0, 165, 255>>
    /\ ret.val.sib.Channels = 3
    /\ ret.val.sib.BitsPerSample = 27

(***************************************************************************)
(* C5                                                                      *)
(***************************************************************************)
\* C5: on a body shorter than 34 bytes the decode ends in a fault and no
\* StreamInfo record is produced, so no record has an MD5Signature of fewer
\* than 32 hexadecimal characters.
C5_ShortBodyFaults ==
    (fn = "FLACParseStreaminfoBlock" /\ ret.called) =>
        /\ Len(block) < STREAMINFO_LEN => ret.val.fault
        /\ ~ret.val.fault => Len(ret.val.sib.MD5Signature) = 32

(***************************************************************************)
(* SpecVC: one call of FLACParseVorbisCommentBlock.  The body is the       *)
(* encoding of decl.vendor and decl.comments cut to decl.cut bytes (filler *)
(* follows a body that is longer than its encoding); with decl.huge the    *)
(* last length field declares 2^32 - 1 bytes.                              *)
(***************************************************************************)
\* the longest vendor or comment string, and the most comments
MaxStr == 2
MaxComments == 2

\* a string of n bytes that names where it stands: k = 0 the vendor, k = i
\* the i-th comment
Str(k, n) == [j \in 1..n |-> 16 * (k + 6) + j]

CommentLists ==
    UNION {{[i \in 1..c |-> Str(i, ls[i])] : ls \in [1..c -> 0..MaxStr]} : c \in 0..MaxComments}

LE32(n) == <<n % 256, (n \div 256) % 256, (n \div 65536) % 256, n \div 16777216>>
HugeLE32 == <<255, 255, 255, 255>>

RECURSIVE EncodeComments(_, _)
EncodeComments(cs, huge) ==
    IF Len(cs) = 0 THEN <<>>
    ELSE (IF huge /\ Len(cs) = 1 THEN HugeLE32 ELSE LE32(Len(cs[1])))
            \o cs[1] \o EncodeComments(Tail(cs), huge)

VorbisEncoding(d) ==
    (IF d.huge /\ Len(d.comments) = 0 THEN HugeLE32 ELSE LE32(Len(d.vendor)))
        \o d.vendor \o LE32(Len(d.comments)) \o EncodeComments(d.comments, d.huge)

VorbisBody(d) == SubSeq(VorbisEncoding(d) \o <<238>>, 1, d.cut)

\* the body ends before everything it declares has been read in full
Truncated(d) == d.huge \/ d.cut < Len(VorbisEncoding(d))

VorbisInputs ==
    UNION {UNION {{[vendor |-> Str(0, v), comments |-> cs, huge |-> h, cut |-> n] :
                      n \in 0..(Len(VorbisEncoding([vendor |-> Str(0, v), comments |-> cs,
                                                    huge |-> h]))
                                + (IF h THEN 0 ELSE 1))} :
                  h \in BOOLEAN, v \in 0..MaxStr} : cs \in CommentLists}

InitVC ==
    /\ fn = "FLACParseVorbisCommentBlock"
    /\ decl \in VorbisInputs
    /\ block = VorbisBody(decl)
    /\ ret = [called |-> FALSE]
    /\ idleMain

CallVC ==
    /\ fn = "FLACParseVorbisCommentBlock"
    /\ ~ret.called
    /\ ret' = [called |-> TRUE, val |-> FLACParseVorbisCommentBlock(block)]
    /\ UNCHANGED <<fn, block, decl, mainVars>>

NextVC == CallVC

SpecVC == InitVC /\ [][NextVC]_vars

(***************************************************************************)
(* C4                                                                      *)
(***************************************************************************)
\* C4: a body that ends before the vendor string and every declared comment
\* entry have been read in full makes the decode fault; no VorbisComment is
\* returned for it.
C4_TruncatedBodyFaults ==
    (fn = "FLACParseVorbisCommentBlock" /\ ret.called /\ Truncated(decl)) =>
        ret.val.fault

(***************************************************************************)
(* C8                                                                      *)
(***************************************************************************)
\* C8: on a well-formed body (little-endian vendor length, the vendor bytes,
\* little-endian comment count n, then n entries of little-endian length
\* and that many bytes) the decode returns the vendor bytes, TotalComments
\* = n and exactly the n comment strings in stream order; an empty vendor
\* and no comments give an empty vendor and an empty comment sequence.
C8_WellFormedBodyDecodes ==
    (fn = "FLACParseVorbisCommentBlock" /\ ret.called /\ ~Truncated(decl)) =>
        /\ ~ret.val.fault
        /\ ret.val.vcb.Vendor = decl.vendor
        /\ ret.val.vcb.TotalComments = NatToBits(Len(decl.comments), 32)
        /\ Len(ret.val.vcb.Comments) = Len(decl.comments)
        /\ \A i \in 1..Len(decl.comments) : ret.val.vcb.Comments[i] = decl.comments[i]

\* a body with a vendor and two different comments was decoded
C8_Witness ==
    /\ fn = "FLACParseVorbisCommentBlock"
    /\ ret.called
    /\ ~Truncated(decl)
    /\ Len(decl.vendor) = 1
    /\ Len(decl.comments) = 2
    /\ Len(decl.comments[1]) = 2
    /\ Len(decl.comments[2]) = 1
    /\ ret.val.vcb.Comments = <<Str(1, 2), Str(2, 1)>>

(***************************************************************************)
(* main: the marker check and the block loop.  The buffer b has BufLen     *)
(* bytes (65536 in info.go, fewer here); buf reads it from offset off.     *)
(* Every byte is read at most once, so the bytes of the buffer are chosen  *)
(* when they are read: the marker, then each header word, then each body.  *)
(* fn, block and ret hold the last decoder call main made.                 *)
(***************************************************************************)
BufLen == 48

HeaderType(k) ==
    CASE k = 0   -> "STREAMINFO"
      [] k = 1   -> "PADDING"
      [] k = 2   -> "APPLICATION"
      [] k = 3   -> "SEEKTABLE"
      [] k = 4   -> "VORBIS_COMMENT"
      [] k = 5   -> "CUESHEET"
      [] k = 6   -> "PICTURE"
      [] k = 127 -> "INVALID"
      [] OTHER   -> "UNKNOWN"

\* buf.Next(n): the number of bytes it returns and advances by
BufNextLen(n) == Min(n, BufLen - off)

\* binary.BigEndian.Uint32(buf.Next(4)) panics on fewer than 4 bytes
HeaderReadFaults_Never == FALSE
HeaderReadFaults == BufNextLen(4) < 4

\* the loop condition "lastBlock != true"
LoopContinues_Always == TRUE
LoopContinues == lastBlock # TRUE

\* the n of buf.Next(int(mbh.Length)) in the three branches of the dispatch
BodyRequest_Fixed34(h) ==
    IF HeaderType(h.Type) = "STREAMINFO" THEN STREAMINFO_LEN ELSE h.Length
BodyRequest(h) == h.Length

FLAC_MARKER == <<102, 76, 97, 67>>

\* header words tried at offset o: each flag, some type codes, some lengths,
\* the lengths that end exactly at the end of the buffer and one byte past
\* it, and the largest length
TypeCodes == {0, 4, 64, 127}
LengthsAt(o) ==
    {0, 1, 8, 20, 34, 16777215}
        \cup {l \in {BufLen - o - 5, BufLen - o - 4, BufLen - o - 3} : l >= 0}
HeaderBytes(last, type, length) ==
    <<(IF last THEN 128 ELSE 0) + type,
      length \div 65536, (length \div 256) % 256, length % 256>>

\* bodies of n bytes tried for a STREAMINFO and for a VORBIS_COMMENT block
Fit(bs, n) == SubSeq(bs \o [i \in 1..n |-> 0], 1, n)
MainStreaminfoBodies(n) ==
    {Fit(<<16, 0>> \o FullWindow \o <<10, 196, 66, 240, 0, 0, 3, 232>> \o SampleMD5, n)}
MainVorbisBodies(n) ==
    {Fit(VorbisEncoding(d), n) :
        d \in {[vendor |-> <<>>, comments |-> <<>>, huge |-> FALSE],
               [vendor |-> Str(0, 2), comments |-> <<Str(1, 1)>>, huge |-> FALSE],
               [vendor |-> Str(0, 1), comments |-> <<Str(1, 2), Str(2, 1)>>, huge |-> TRUE]}}

\* The decoders are functions of their argument alone, so the calls main can
\* make are tabulated once: each header word tried with the header decoded
\* from it, and each body tried, by length, with the decoder's result.
HeaderCalls ==
    {[length |-> length,
      mbh |-> FLACParseMetadataBlockHeader(
                  BigEndianUint(HeaderBytes(last, type, length), 4))] :
        last \in BOOLEAN, type \in TypeCodes,
        length \in UNION {LengthsAt(o) : o \in 0..BufLen}}
StreaminfoCalls ==
    [n \in 0..BufLen |->
        {[block |-> body, val |-> FLACParseStreaminfoBlock(body)] :
            body \in MainStreaminfoBodies(n)}]
VorbisCommentCalls ==
    [n \in 0..BufLen |->
        {[block |-> body, val |-> FLACParseVorbisCommentBlock(body)] :
            body \in MainVorbisBodies(n)}]

Init ==
    /\ pc = "marker"
    /\ off = 0
    /\ lastBlock = FALSE
    /\ totalMBH = 0
    /\ mbh = [Type |-> 0, Length |-> 0, Last |-> FALSE]
    /\ sum = 4
    /\ fn = "none"
    /\ block = <<>>
    /\ ret = [called |-> FALSE]
    /\ decl = <<>>

\* string(buf.Next(4)) != "fLaC": report and os.Exit(-1)
MarkerBad ==
    /\ pc = "marker"
    /\ \E m \in {<<82, 73, 70, 70>>, <<102, 76, 97, 99>>} :
          /\ m # FLAC_MARKER
          /\ off' = off + BufNextLen(4)
          /\ pc' = "exit"
    /\ UNCHANGED <<lastBlock, totalMBH, mbh, sum, callVars>>

MarkerOk ==
    /\ pc = "marker"
    /\ \E m \in {FLAC_MARKER} :
          /\ m = FLAC_MARKER
          /\ off' = off + BufNextLen(4)
          /\ pc' = "header"
    /\ UNCHANGED <<lastBlock, totalMBH, mbh, sum, callVars>>

\* the loop condition fails: main returns
ExitLoop ==
    /\ pc = "header"
    /\ ~LoopContinues
    /\ pc' = "done"
    /\ UNCHANGED <<off, lastBlock, totalMBH, mbh, sum, callVars>>

\* fewer than 4 unread bytes are left for the header: the run panics
ReadHeaderFault ==
    /\ pc = "header"
    /\ LoopContinues
    /\ HeaderReadFaults
    /\ off' = off + BufNextLen(4)
    /\ pc' = "fault"
    /\ UNCHANGED <<lastBlock, totalMBH, mbh, sum, callVars>>

\* streamBuf, mbh, lastBlock and totalMBH of one iteration
ReadHeader ==
    /\ pc = "header"
    /\ LoopContinues
    /\ ~HeaderReadFaults
    /\ \E c \in HeaderCalls :
          /\ c.length \in LengthsAt(off)
          /\ mbh' = c.mbh
          /\ lastBlock' = c.mbh.Last
          /\ sum' = sum + 4 + c.mbh.Length
    /\ off' = off + BufNextLen(4)
    /\ totalMBH' = totalMBH + 1
    /\ pc' = "body"
    /\ UNCHANGED callVars

DispatchStreaminfo ==
    /\ pc = "body"
    /\ HeaderType(mbh.Type) = "STREAMINFO"
    /\ \E c \in StreaminfoCalls[BufNextLen(BodyRequest(mbh))] :
          /\ fn' = "FLACParseStreaminfoBlock"
          /\ block' = c.block
          /\ ret' = [called |-> TRUE, val |-> c.val]
          /\ pc' = IF c.val.fault THEN "fault" ELSE "header"
    /\ off' = off + BufNextLen(BodyRequest(mbh))
    /\ UNCHANGED <<lastBlock, totalMBH, mbh, sum, decl>>

DispatchVorbisComment ==
    /\ pc = "body"
    /\ HeaderType(mbh.Type) # "STREAMINFO"
    /\ HeaderType(mbh.Type) = "VORBIS_COMMENT"
    /\ \E c \in VorbisCommentCalls[BufNextLen(BodyRequest(mbh))] :
          /\ fn' = "FLACParseVorbisCommentBlock"
          /\ block' = c.block
          /\ ret' = [called |-> TRUE, val |-> c.val]
          /\ pc' = IF c.val.fault THEN "fault" ELSE "header"
    /\ off' = off + BufNextLen(BodyRequest(mbh))
    /\ UNCHANGED <<lastBlock, totalMBH, mbh, sum, decl>>

DispatchSkip ==
    /\ pc = "body"
    /\ HeaderType(mbh.Type) # "STREAMINFO"
    /\ HeaderType(mbh.Type) # "VORBIS_COMMENT"
    /\ off' = off + BufNextLen(BodyRequest(mbh))
    /\ pc' = "header"
    /\ UNCHANGED <<lastBlock, totalMBH, mbh, sum, callVars>>

Next ==
    \/ MarkerBad
    \/ MarkerOk
    \/ ExitLoop
    \/ ReadHeaderFault
    \/ ReadHeader
    \/ DispatchStreaminfo
    \/ DispatchVorbisComment
    \/ DispatchSkip

Spec == Init /\ [][Next]_vars

\* main is one sequential thread: a step that can be taken is taken
FairSpec == Spec /\ WF_vars(Next)

Terminated == pc \in {"done", "fault", "exit"}

(***************************************************************************)
(* C6                                                                      *)
(***************************************************************************)
\* some body was longer than the bytes left after its header
Overrun == sum > BufLen

\* C6: a header whose Length exceeds the bytes left in the buffer after it
\* is fatal, for every block type and also when the header is marked last:
\* the run never completes normally after such a header.
C6_OverrunIsFatal == pc = "done" => ~Overrun

(***************************************************************************)
(* C7                                                                      *)
(***************************************************************************)
\* C7: once a header with Last = true has been decoded, its body is
\* dispatched and no further header is decoded: a header is decoded only
\* while no decoded header was last, the block of the last-flagged header
\* is dispatched and then the loop ends, and a run that completes has
\* decoded a last-flagged header as its final one.
C7_StopAfterLast ==
    /\ [][totalMBH' # totalMBH => (~lastBlock /\ totalMBH' = totalMBH + 1)]_vars
    /\ [][lastBlock => (lastBlock' /\ mbh' = mbh)]_vars
    /\ [][(lastBlock /\ pc = "body") => pc' \in {"header", "fault"}]_vars
    /\ [][(lastBlock /\ pc = "header") => pc' = "done"]_vars
    /\ [](lastBlock = (totalMBH > 0 /\ mbh.Last))
    /\ [](pc = "done" => (lastBlock /\ totalMBH >= 1))

\* the run completed after three headers, the third one last-flagged
C7_Witness == pc = "done" /\ totalMBH = 3 /\ mbh.Last

(***************************************************************************)
(* C9                                                                      *)
(***************************************************************************)
\* C9: every header is read at offset 4 + the sum of (4 + Length) over the
\* blocks before it, and as long as every body fits in the buffer the
\* cursor stands at 4 + the sum of (4 + Length) over all blocks so far after
\* each block, whatever its type and whatever its decoder read of it.
C9_Synchronized ==
    /\ pc = "body" => off - 4 = sum - (4 + mbh.Length)
    /\ (pc = "header" /\ ~Overrun) => off = sum

\* a third header was read after a STREAMINFO block of 20 bytes whose
\* decoder returned
C9_Witness ==
    /\ pc = "body"
    /\ totalMBH = 3
    /\ fn = "FLACParseStreaminfoBlock"
    /\ Len(block) = 20
    /\ ~ret.val.fault
    /\ off = sum - mbh.Length

(***************************************************************************)
(* C10                                                                     *)
(***************************************************************************)
\* C10: the loop ends, normally or by a fault; the cursor never moves back
\* and never passes the end of the buffer, decoding a header advances it by
\* at least 4 bytes, and at most (BufLen - 4) / 4 headers are decoded.
C10_Terminates ==
    /\ <>Terminated
    /\ [](off <= BufLen /\ totalMBH <= (BufLen - 4) \div 4)
    /\ [][off' >= off /\ (totalMBH' # totalMBH => off' >= off + 4)]_vars

\* the run ended with as many headers decoded as the buffer has room for
C10_Witness == Terminated /\ totalMBH = (BufLen - 4) \div 4

====
